---- MODULE Spec2Model ----
(***************************************************************************)
(* Model of the resume-tailoring backend (app.py): the POST /api/analyze   *)
(* handler, the resume formatter format_resume_for_ai and the response     *)
(* parser parse_ai_response.                                               *)
(*                                                                         *)
(* Texts handled by the parser are sequences of Unicode code points, so    *)
(* that strip, split, startswith and the regular expressions are modelled  *)
(* character by character.                                                 *)
(***************************************************************************)
EXTENDS Integers, Sequences, FiniteSets, TLC

(***************************************************************************)
(* Characters (code points) the parser distinguishes.                      *)
(***************************************************************************)
NL == 10
SPACE == 32
QUOTE == 34
STAR == 42
DASH == 45
BULLET == 8226

\* str.strip() and the regex class \s: the ASCII whitespace characters
Whitespace == {9, 10, 11, 12, 13, 32}

\* the three bullet markers of line 262 (and of the split class of line 247)
Markers == {BULLET, DASH, STAR}

\* the characters removed by re.sub(r'[*"]', '', ...)
Noise == {STAR, QUOTE}

\* "SUMMARY:" and "EXPERIENCE:"
SummaryMarker == <<83, 85, 77, 77, 65, 82, 89, 58>>
ExperienceMarker == <<69, 88, 80, 69, 82, 73, 69, 78, 67, 69, 58>>

(***************************************************************************)
(* String primitives.                                                      *)
(***************************************************************************)
IsSpace(c) == c \in Whitespace

\* re.IGNORECASE on the ASCII letters of the two markers
Lower(c) == IF c >= 65 /\ c <= 90 THEN c + 32 ELSE c

\* the literal lit matches s, ignoring case, starting after position p (0-based)
MatchesAt(s, p, lit) ==
    /\ p + Len(lit) <= Len(s)
    /\ \A k \in 1..Len(lit) : Lower(s[p + k]) = Lower(lit[k])

\* `$' without re.MULTILINE: the end of the text, or just before a final newline
AtEnd(s, p) == p = Len(s) \/ (p = Len(s) - 1 /\ s[Len(s)] = NL)

Least(S) == CHOOSE p \in S : \A q \in S : p <= q

\* the k-th smallest element of a finite set of integers
Nth(S, k) == CHOOSE c \in S : Cardinality({d \in S : d < c}) = k - 1

\* str.strip()
Strip(s) ==
    LET keep == {i \in 1..Len(s) : ~IsSpace(s[i])}
    IN  IF keep = {} THEN <<>>
        ELSE SubSeq(s, Least(keep), CHOOSE i \in keep : \A j \in keep : j <= i)

\* the pieces of s between the positions in cuts (the cut characters are dropped)
RECURSIVE SplitFrom(_, _, _)
SplitFrom(s, cuts, i) ==
    LET rest == {c \in cuts : c >= i}
    IN  IF rest = {} THEN << SubSeq(s, i, Len(s)) >>
        ELSE << SubSeq(s, i, Least(rest) - 1) >> \o SplitFrom(s, cuts, Least(rest) + 1)

SplitAt(s, cuts) == SplitFrom(s, cuts, 1)

\* str.split('\n')
SplitLines(s) == SplitAt(s, {i \in 1..Len(s) : s[i] = NL})

\* re.split(r'\n(?=[^\s•\-*])', s): a newline followed by a character that is
\* neither whitespace nor a bullet marker
CompanyCuts(s) ==
    {i \in 1..Len(s) : /\ s[i] = NL
                       /\ i < Len(s)
                       /\ ~IsSpace(s[i + 1])
                       /\ s[i + 1] \notin Markers}

SplitCompanies(s) == SplitAt(s, CompanyCuts(s))

\* re.sub(r'[*"]', '', s)
RemoveNoiseStarsOnly(s) == SelectSeq(s, LAMBDA c : c # STAR)
RemoveNoise(s) == SelectSeq(s, LAMBDA c : c \notin Noise)

\* re.sub(r'^\s*•\s*', '', s): one leading bullet, with the whitespace around it
StripLeadingBullet(s) ==
    LET lead == Least({k \in 0..Len(s) : k = Len(s) \/ ~IsSpace(s[k + 1])})
    IN  IF lead < Len(s) /\ s[lead + 1] = BULLET
        THEN LET rest == SubSeq(s, lead + 2, Len(s))
                 skip == Least({k \in 0..Len(rest) :
                                   k = Len(rest) \/ ~IsSpace(rest[k + 1])})
             IN  SubSeq(rest, skip + 1, Len(rest))
        ELSE s

\* re.sub(r'\s+', ' ', s): every run of whitespace becomes one space
CollapseSpaces(s) ==
    LET marked == [i \in 1..Len(s) |->
                      [c |-> IF IsSpace(s[i]) THEN SPACE ELSE s[i],
                       keep |-> ~IsSpace(s[i]) \/ i = 1 \/ ~IsSpace(s[i - 1])]]
        kept == SelectSeq(marked, LAMBDA m : m.keep)
    IN  [k \in 1..Len(kept) |-> kept[k].c]

(***************************************************************************)
(* parse_ai_response                                                       *)
(***************************************************************************)
\* positions where a literal matches
Occurrences(s, lit) == {p \in 0..Len(s) : MatchesAt(s, p, lit)}

\* re.search(r'SUMMARY:(.*?)(?=EXPERIENCE:|$)', ...) : group(1), when it matches
SummaryGroup(s) ==
    LET g == Least(Occurrences(s, SummaryMarker)) + Len(SummaryMarker)
        e == Least({j \in g..Len(s) :
                       MatchesAt(s, j, ExperienceMarker) \/ AtEnd(s, j)})
    IN  SubSeq(s, g + 1, e)

\* re.search(r'EXPERIENCE:(.*?)$', ...) : group(1), when it matches
ExperienceGroup(s) ==
    LET g == Least(Occurrences(s, ExperienceMarker)) + Len(ExperienceMarker)
        e == Least({j \in g..Len(s) : AtEnd(s, j)})
    IN  SubSeq(s, g + 1, e)

ParseSummaryWholeReply(s) ==
    CollapseSpaces(StripLeadingBullet(Strip(
        IF Occurrences(s, SummaryMarker) = {} THEN s ELSE SummaryGroup(s))))
ParseSummary(s) ==
    IF Occurrences(s, SummaryMarker) = {} THEN <<>>
    ELSE CollapseSpaces(StripLeadingBullet(Strip(SummaryGroup(s))))

\* the bullet text of one line, <<>> when the line is no bullet or an empty one
BulletPointAnywhere(line) ==
    LET at == {i \in 1..Len(line) : line[i] \in Markers}
    IN  IF at = {} THEN <<>> ELSE Strip(SubSeq(line, Least(at) + 1, Len(line)))
BulletPoint(line) ==
    LET l == Strip(line)
    IN  IF l # <<>> /\ l[1] \in Markers THEN Strip(Tail(l)) ELSE <<>>

\* the bullet points of the lines after the first, in order
BulletPoints(lines) ==
    LET pts == [i \in 1..(Len(lines) - 1) |-> BulletPoint(lines[i + 1])]
    IN  SelectSeq(pts, LAMBDA p : p # <<>>)

\* bullet_points[:4]
BulletCap == 4
FirstNUncapped(s, n) == s
FirstN(s, n) == SubSeq(s, 1, IF Len(s) < n THEN Len(s) ELSE n)

\* one company section: the entries it contributes (none or one)
SectionEntries(section) ==
    IF Strip(section) = <<>> THEN <<>>
    ELSE LET lines == SplitLines(Strip(section))
             company_name == Strip(lines[1])
             bullet_points == BulletPoints(lines)
         IN  IF company_name # <<>> /\ bullet_points # <<>>
             THEN << [company |-> company_name,
                      bulletPoints |-> FirstN(bullet_points, BulletCap)] >>
             ELSE <<>>

RECURSIVE ConcatEntries(_, _)
ConcatEntries(sections, k) ==
    IF k > Len(sections) THEN <<>>
    ELSE SectionEntries(sections[k]) \o ConcatEntries(sections, k + 1)

ParseExperience(s) ==
    IF Occurrences(s, ExperienceMarker) = {} THEN <<>>
    ELSE LET sections == SplitCompanies(Strip(ExperienceGroup(s)))
         IN  ConcatEntries(sections, 1)

\* lines 274-277: the final removal of '*' and '"'
CleanEntry(exp) ==
    [company |-> exp.company,
     bulletPoints |-> [i \in 1..Len(exp.bulletPoints) |->
                          RemoveNoise(exp.bulletPoints[i])]]

parse_ai_response(ai_response) ==
    LET exps == ParseExperience(ai_response)
    IN  [summary |-> RemoveNoise(ParseSummary(ai_response)),
         workExperience |-> [i \in 1..Len(exps) |-> CleanEntry(exps[i])]]

(***************************************************************************)
(* JSON values as Python sees them: each value carries its type, so that   *)
(* the operations of the formatter (in, [], .get, iteration, truth,        *)
(* f-string formatting) can raise exactly where Python raises.             *)
(* Text values are sequences of code points; dictionary keys are strings.  *)
(***************************************************************************)
Null == [t |-> "null"]
Num(n) == [t |-> "num", n |-> n]
Str(s) == [t |-> "str", s |-> s]
List(l) == [t |-> "list", l |-> l]
Dict(d) == [t |-> "dict", d |-> d]

\* "PROFILE:"
ProfileLabel == <<80, 82, 79, 70, 73, 76, 69, 58>>
\* "WORK EXPERIENCE:"
WorkLabel == <<87, 79, 82, 75, 32, 69, 88, 80, 69, 82, 73, 69, 78, 67, 69, 58>>
\* "EDUCATION:"
EducationLabel == <<69, 68, 85, 67, 65, 84, 73, 79, 78, 58>>
\* "SKILLS:"
SkillsLabel == <<83, 75, 73, 76, 76, 83, 58>>
\* "PROJECTS:"
ProjectsLabel == <<80, 82, 79, 74, 69, 67, 84, 83, 58>>
\* "Name: "
NamePrefix == <<78, 97, 109, 101, 58, 32>>
\* "Email: "
EmailPrefix == <<69, 109, 97, 105, 108, 58, 32>>
\* "Phone: "
PhonePrefix == <<80, 104, 111, 110, 101, 58, 32>>
\* "Location: "
LocationPrefix == <<76, 111, 99, 97, 116, 105, 111, 110, 58, 32>>
\* "URL: "
UrlPrefix == <<85, 82, 76, 58, 32>>
\* "Summary: "
SummaryPrefix == <<83, 117, 109, 109, 97, 114, 121, 58, 32>>
\* "Company: "
CompanyPrefix == <<67, 111, 109, 112, 97, 110, 121, 58, 32>>
\* "Job Title: "
JobTitlePrefix == <<74, 111, 98, 32, 84, 105, 116, 108, 101, 58, 32>>
\* "Date: "
DatePrefix == <<68, 97, 116, 101, 58, 32>>
\* "School: "
SchoolPrefix == <<83, 99, 104, 111, 111, 108, 58, 32>>
\* "Degree: "
DegreePrefix == <<68, 101, 103, 114, 101, 101, 58, 32>>
\* "Project: "
ProjectPrefix == <<80, 114, 111, 106, 101, 99, 116, 58, 32>>
\* "Descriptions:"
DescriptionsLabel == <<68, 101, 115, 99, 114, 105, 112, 116, 105, 111, 110, 115, 58>>
\* "- "
ItemPrefix == <<45, 32>>
\* "N/A"
NotAvailable == <<78, 47, 65>>
\* "None"
NoneText == <<78, 111, 110, 101>>
\* "[]"
EmptyListText == <<91, 93>>
\* "{}"
EmptyDictText == <<123, 125>>
\* the characters of a dictionary key
KeyChars(key) ==
    CASE key = "profile" -> <<112, 114, 111, 102, 105, 108, 101>>
      [] key = "workExperiences" -> <<119, 111, 114, 107, 69, 120, 112, 101, 114, 105, 101, 110, 99, 101, 115>>
      [] key = "educations" -> <<101, 100, 117, 99, 97, 116, 105, 111, 110, 115>>
      [] key = "skills" -> <<115, 107, 105, 108, 108, 115>>
      [] key = "projects" -> <<112, 114, 111, 106, 101, 99, 116, 115>>
      [] key = "descriptions" -> <<100, 101, 115, 99, 114, 105, 112, 116, 105, 111, 110, 115>>
      [] key = "featuredSkills" -> <<102, 101, 97, 116, 117, 114, 101, 100, 83, 107, 105, 108, 108, 115>>
      [] key = "skill" -> <<115, 107, 105, 108, 108>>
      [] key = "name" -> <<110, 97, 109, 101>>
      [] key = "email" -> <<101, 109, 97, 105, 108>>
      [] key = "phone" -> <<112, 104, 111, 110, 101>>
      [] key = "location" -> <<108, 111, 99, 97, 116, 105, 111, 110>>
      [] key = "url" -> <<117, 114, 108>>
      [] key = "summary" -> <<115, 117, 109, 109, 97, 114, 121>>
      [] key = "company" -> <<99, 111, 109, 112, 97, 110, 121>>
      [] key = "jobTitle" -> <<106, 111, 98, 84, 105, 116, 108, 101>>
      [] key = "date" -> <<100, 97, 116, 101>>
      [] key = "school" -> <<115, 99, 104, 111, 111, 108>>
      [] key = "degree" -> <<100, 101, 103, 114, 101, 101>>
      [] key = "project" -> <<112, 114, 111, 106, 101, 99, 116>>
      [] key = "resume" -> <<114, 101, 115, 117, 109, 101>>
      [] key = "jobDescription" -> <<106, 111, 98, 68, 101, 115, 99, 114, 105, 112, 116, 105, 111, 110>>

\* bool(x)
Truthy(x) ==
    CASE x.t = "null" -> FALSE
      [] x.t = "num" -> x.n # 0
      [] x.t = "str" -> x.s # <<>>
      [] x.t = "list" -> x.l # <<>>
      [] x.t = "dict" -> DOMAIN x.d # {}

\* f"{x}": str(x), for text, None, one-digit numbers and empty containers
Fmt(x) ==
    CASE x.t = "null" -> NoneText
      [] x.t = "num" -> <<48 + x.n>>
      [] x.t = "str" -> x.s
      [] x.t = "list" -> EmptyListText
      [] x.t = "dict" -> EmptyDictText

\* case-sensitive substring test
Occurs(lit, s) ==
    \E p \in 0..Len(s) :
        /\ p + Len(lit) <= Len(s)
        /\ \A k \in 1..Len(lit) : s[p + k] = lit[k]

\* key in x : "yes", "no", or the exception raised
In(key, x) ==
    CASE x.t = "dict" -> IF key \in DOMAIN x.d THEN "yes" ELSE "no"
      [] x.t = "list" ->
            IF \E i \in 1..Len(x.l) : x.l[i].t = "str" /\ x.l[i].s = KeyChars(key)
            THEN "yes" ELSE "no"
      [] x.t = "str" -> IF Occurs(KeyChars(key), x.s) THEN "yes" ELSE "no"
      [] OTHER -> "TypeError"

\* the outcome of a statement sequence: the exception raised ("" for none)
\* and the entries appended to `formatted'
Ok(out) == [exc |-> "", out |-> out]
Raise(e) == [exc |-> e, out |-> <<>>]
Then(r1, r2) ==
    IF r1.exc # "" THEN r1 ELSE [exc |-> r2.exc, out |-> r1.out \o r2.out]

\* x[key] raises TypeError unless x is a dictionary (and KeyError without the key)
ItemExc(x, key) ==
    IF x.t # "dict" THEN "TypeError"
    ELSE IF key \notin DOMAIN x.d THEN "KeyError" ELSE ""

\* x.get(key, default) on a dictionary
Get(x, key, default) == IF key \in DOMAIN x.d THEN x.d[key] ELSE default

\* for e in x : the elements visited, when x is iterable (a dictionary of at
\* most one key yields that key)
Iterable(x) == x.t \in {"list", "str", "dict"}
Iterate(x) ==
    CASE x.t = "list" -> x.l
      [] x.t = "str" -> [i \in 1..Len(x.s) |-> Str(<<x.s[i]>>)]
      [] x.t = "dict" ->
            IF DOMAIN x.d = {} THEN <<>>
            ELSE << Str(KeyChars(CHOOSE k \in DOMAIN x.d : TRUE)) >>

(***************************************************************************)
(* format_resume_for_ai                                                    *)
(***************************************************************************)
\* lines 163-168, 175-177, 188-190, 214-215: one "<prefix>{x.get(key, 'N/A')}"
\* line per field; .get raises AttributeError unless x is a dictionary
FieldLines(x, fields) ==
    IF x.t # "dict" THEN Raise("AttributeError")
    ELSE Ok([i \in 1..Len(fields) |->
                fields[i][2] \o Fmt(Get(x, fields[i][1], Str(NotAvailable)))])

\* for desc in v: formatted.append(f"- {desc}")
ItemLines(v) ==
    IF ~Iterable(v) THEN Raise("TypeError")
    ELSE Ok([i \in 1..Len(Iterate(v)) |-> ItemPrefix \o Fmt(Iterate(v)[i])])

\* lines 178-181: the descriptions of an entry (a dictionary here)
DescriptionLines(x) ==
    IF "descriptions" \in DOMAIN x.d /\ Truthy(x.d["descriptions"])
    THEN Then(Ok(<<DescriptionsLabel>>), ItemLines(x.d["descriptions"]))
    ELSE Ok(<<>>)

\* one pass of the loop body of lines 174-182
EntryLines(x, fields) ==
    Then(FieldLines(x, fields), Then(DescriptionLines(x), Ok(<< <<>> >>)))

RECURSIVE EntriesFrom(_, _, _)
EntriesFrom(xs, k, fields) ==
    IF k > Len(xs) THEN Ok(<<>>)
    ELSE Then(EntryLines(xs[k], fields), EntriesFrom(xs, k + 1, fields))

ProfileFields ==
    << <<"name", NamePrefix>>, <<"email", EmailPrefix>>, <<"phone", PhonePrefix>>,
       <<"location", LocationPrefix>>, <<"url", UrlPrefix>>,
       <<"summary", SummaryPrefix>> >>
WorkFields ==
    << <<"company", CompanyPrefix>>, <<"jobTitle", JobTitlePrefix>>,
       <<"date", DatePrefix>> >>
EducationFields ==
    << <<"school", SchoolPrefix>>, <<"degree", DegreePrefix>>, <<"date", DatePrefix>> >>
ProjectFields == << <<"project", ProjectPrefix>>, <<"date", DatePrefix>> >>

\* lines 160-169
ProfileSection(resume_data) ==
    LET in == In("profile", resume_data)
    IN  IF in = "TypeError" THEN Raise("TypeError")
        ELSE IF in = "no" THEN Ok(<<>>)
        ELSE IF ItemExc(resume_data, "profile") # ""
             THEN Raise(ItemExc(resume_data, "profile"))
        ELSE Then(Ok(<<ProfileLabel>>),
                  Then(FieldLines(resume_data.d["profile"], ProfileFields),
                       Ok(<< <<>> >>)))

\* lines 172-182, 185-195, 211-220: a section holding a list of entries
ListSectionAlwaysLabelled(resume_data, key, label, fields) ==
    LET in == In(key, resume_data)
    IN  IF in = "TypeError" THEN Raise("TypeError")
        ELSE IF in = "no" THEN Ok(<<>>)
        ELSE IF ItemExc(resume_data, key) # "" THEN Raise(ItemExc(resume_data, key))
        ELSE IF ~Iterable(resume_data.d[key]) THEN Then(Ok(<<label>>), Raise("TypeError"))
        ELSE Then(Ok(<<label>>), EntriesFrom(Iterate(resume_data.d[key]), 1, fields))
ListSection(resume_data, key, label, fields) ==
    LET in == In(key, resume_data)
    IN  IF in = "TypeError" THEN Raise("TypeError")
        ELSE IF in = "no" THEN Ok(<<>>)
        ELSE IF ItemExc(resume_data, key) # "" THEN Raise(ItemExc(resume_data, key))
        ELSE IF ~Truthy(resume_data.d[key]) THEN Ok(<<>>)
        ELSE IF ~Iterable(resume_data.d[key]) THEN Then(Ok(<<label>>), Raise("TypeError"))
        ELSE Then(Ok(<<label>>), EntriesFrom(Iterate(resume_data.d[key]), 1, fields))

\* lines 201-203: the featured skills, skipping the empty skill names
RECURSIVE FeaturedFrom(_, _)
FeaturedFrom(xs, k) ==
    IF k > Len(xs) THEN Ok(<<>>)
    ELSE IF xs[k].t # "dict" THEN Raise("AttributeError")
    ELSE Then(IF Truthy(Get(xs[k], "skill", Null))
              THEN Ok(<< ItemPrefix \o Fmt(Get(xs[k], "skill", Null)) >>)
              ELSE Ok(<<>>),
              FeaturedFrom(xs, k + 1))

\* lines 200-207, for the value of resume_data['skills']
SkillLines(skills, key) ==
    LET in == In(key, skills)
    IN  IF in = "TypeError" THEN Raise("TypeError")
        ELSE IF in = "no" THEN Ok(<<>>)
        ELSE IF ItemExc(skills, key) # "" THEN Raise(ItemExc(skills, key))
        ELSE IF ~Iterable(skills.d[key]) THEN Raise("TypeError")
        ELSE IF key = "featuredSkills" THEN FeaturedFrom(Iterate(skills.d[key]), 1)
        ELSE ItemLines(skills.d[key])

\* lines 198-208
SkillsSection(resume_data) ==
    LET in == In("skills", resume_data)
    IN  IF in = "TypeError" THEN Raise("TypeError")
        ELSE IF in = "no" THEN Ok(<<>>)
        ELSE IF ItemExc(resume_data, "skills") # ""
             THEN Raise(ItemExc(resume_data, "skills"))
        ELSE Then(Ok(<<SkillsLabel>>),
                  Then(SkillLines(resume_data.d["skills"], "featuredSkills"),
                       Then(SkillLines(resume_data.d["skills"], "descriptions"),
                            Ok(<< <<>> >>))))

\* "\n".join(formatted)
RECURSIVE Join(_, _)
Join(entries, k) ==
    IF k > Len(entries) THEN <<>>
    ELSE IF k = Len(entries) THEN entries[k]
    ELSE entries[k] \o <<NL>> \o Join(entries, k + 1)

\* the statements of format_resume_for_ai in order
FormattedEntries(resume_data) ==
    Then(ProfileSection(resume_data),
    Then(ListSection(resume_data, "workExperiences", WorkLabel, WorkFields),
    Then(ListSection(resume_data, "educations", EducationLabel, EducationFields),
    Then(SkillsSection(resume_data),
         ListSection(resume_data, "projects", ProjectsLabel, ProjectFields)))))

\* the result: the exception raised ("" for none) and the text returned
format_resume_for_ai(resume_data) ==
    LET r == FormattedEntries(resume_data)
    IN  [exc |-> r.exc, text |-> IF r.exc = "" THEN Join(r.out, 1) ELSE <<>>]

(***************************************************************************)
(* State.  The handler's locals and the module-level credential; the pure  *)
(* functions are exercised on the same variables.                          *)
(***************************************************************************)
VARIABLES
    openai_api_key,  \* the credential read at start-up (line 17)
    pc,              \* position of the request being handled
    request,         \* the body of the request being handled
    bodyRead,        \* request.json has been evaluated for this request
    modelCalls,      \* calls of openai.ChatCompletion.create for this request
    response,        \* the response returned for this request
    escaped,         \* the exception that left the handler ("" for none)
    resume_data,     \* data['resume'], the argument of format_resume_for_ai
    formatted,       \* the outcome of format_resume_for_ai
    ai_content,      \* the reply of the model, the argument of parse_ai_response
    result           \* the outcome of parse_ai_response

vars == <<openai_api_key, pc, request, bodyRead, modelCalls, response, escaped,
          resume_data, formatted, ai_content, result>>

Pending == [exc |-> "pending"]
NoRequest == [kind |-> "none"]
NoResponse == [status |-> 0]

\* parse_ai_response applied to a value: re.search raises TypeError unless it
\* is given text
ParseOutcome(content) ==
    IF content.t # "str" THEN [exc |-> "TypeError"]
    ELSE [exc |-> "", value |-> parse_ai_response(content.s)]

(***************************************************************************)
(* Inputs of the parser: replies assembled from sample lines.              *)
(***************************************************************************)
MaxLines == 4
MaxBulletLines == 6

\* "summary: • "Hi" *"
LineSummary == <<115, 117, 109, 109, 97, 114, 121, 58, 32, 8226, 32, 34, 72, 105, 34, 32, 42>>
\* "Experience:"
LineExperience == <<69, 120, 112, 101, 114, 105, 101, 110, 99, 101, 58>>
\* "Acme"
LineAcme == <<65, 99, 109, 101>>
\* "- Great company"
LineDashGreat == <<45, 32, 71, 114, 101, 97, 116, 32, 99, 111, 109, 112, 97, 110, 121>>
\* "Great - company"
LineGreatDash == <<71, 114, 101, 97, 116, 32, 45, 32, 99, 111, 109, 112, 97, 110, 121>>
\* "<TAB>• Led team* of "5""
LineLedTeam == <<9, 8226, 32, 76, 101, 100, 32, 116, 101, 97, 109, 42, 32, 111, 102, 32, 34, 53, 34>>
\* "• *"
LineStarOnly == <<8226, 32, 42>>
\* "  Great - company"
LineIndentedGreatDash == <<32, 32>> \o LineGreatDash
\* "Great company", "company", "- company", "Led team of 5"
TextGreatCompany == <<71, 114, 101, 97, 116, 32, 99, 111, 109, 112, 97, 110, 121>>
TextCompany == <<99, 111, 109, 112, 97, 110, 121>>
TextDashCompany == <<45, 32, 99, 111, 109, 112, 97, 110, 121>>
TextLedTeam == <<76, 101, 100, 32, 116, 101, 97, 109, 32, 111, 102, 32, 53>>

ReplyLines ==
    {LineSummary, LineExperience, LineAcme, LineDashGreat, LineGreatDash,
     LineIndentedGreatDash, LineLedTeam, LineStarOnly, <<>>}

\* "• a", "- b", " x", "•", "Beta"
CapLines == {<<8226, 32, 97>>, <<45, 32, 98>>, <<32, 120>>, <<8226>>, <<66, 101, 116, 97>>}

\* the sequences of at most n lines drawn from a set
LineSeqs(lines, n) == UNION {[1..k -> lines] : k \in 0..n}

Replies == {Join(ls, 1) : ls \in LineSeqs(ReplyLines, MaxLines)}

\* "EXPERIENCE:", "Acme" and then up to MaxBulletLines lines
CapReplies ==
    {Join(<<ExperienceMarker, LineAcme>> \o ls, 1) :
        ls \in LineSeqs(CapLines, MaxBulletLines)}

(***************************************************************************)
(* The parser on its own: a reply is drawn, then parsed.                   *)
(***************************************************************************)
IdleHandler ==
    /\ openai_api_key = ""
    /\ request = NoRequest
    /\ bodyRead = FALSE
    /\ modelCalls = 0
    /\ response = NoResponse
    /\ escaped = ""

InitParse ==
    /\ IdleHandler
    /\ pc = "reply"
    /\ resume_data = Null
    /\ formatted = Pending
    /\ ai_content \in {Str(t) : t \in Replies}
    /\ result = Pending

InitCap ==
    /\ IdleHandler
    /\ pc = "reply"
    /\ resume_data = Null
    /\ formatted = Pending
    /\ ai_content \in {Str(t) : t \in CapReplies}
    /\ result = Pending

Parse ==
    /\ pc = "reply"
    /\ result' = ParseOutcome(ai_content)
    /\ pc' = "parsed"
    /\ UNCHANGED <<openai_api_key, request, bodyRead, modelCalls, response, escaped,
                   resume_data, formatted, ai_content>>

SpecParse == InitParse /\ [][Parse]_vars
SpecCap == InitCap /\ [][Parse]_vars

(***************************************************************************)
(* Properties of parse_ai_response.                                        *)
(***************************************************************************)
Reply == ai_content.s
ReplyLineSeq == SplitLines(Reply)
Tailored == result.value
Entries == Tailored.workExperience
AllBulletPoints ==
    {Entries[i].bulletPoints[j] : <<i, j>> \in
        {<<a, b>> \in (1..Len(Entries)) \X (1..BulletCap + 2) :
            b <= Len(Entries[a].bulletPoints)}}

\* lit occurs in s, ignoring the case of ASCII letters
ContainsIgnoringCase(s, lit) ==
    \E p \in 0..Len(s) :
        /\ p + Len(lit) <= Len(s)
        /\ \A k \in 1..Len(lit) : Lower(s[p + k]) = Lower(lit[k])

WithoutStarsAndQuotes(s) == SelectSeq(s, LAMBDA c : c \notin {42, 34})

\* the first non-whitespace character of a line is '•', '-' or '*'
MarkerFirst(l) == Strip(l) # <<>> /\ Strip(l)[1] \in {8226, 45, 42}
\* what follows the marker, trimmed
AfterMarker(l) == Strip(Tail(Strip(l)))

EmptyTailored == [summary |-> <<>>, workExperience |-> <<>>]

\* C4: parse_ai_response never raises on text and returns a record with a
\* text 'summary' and a list 'workExperience'; on a text holding neither
\* "SUMMARY:" nor "EXPERIENCE:" (in any case) the record is the empty one.
C4_ParserTotal ==
    pc = "parsed" =>
        /\ result.exc = ""
        /\ DOMAIN Tailored = {"summary", "workExperience"}
        /\ Tailored.summary \in Seq(Nat)
        /\ \A i \in 1..Len(Entries) :
              DOMAIN Entries[i] = {"company", "bulletPoints"}
        /\ (~ContainsIgnoringCase(Reply, SummaryMarker)
              /\ ~ContainsIgnoringCase(Reply, ExperienceMarker))
            => Tailored = EmptyTailored

\* a marker-less reply that holds bullet lines and a bare line was parsed
C4_Witness ==
    /\ pc = "parsed"
    /\ ~ContainsIgnoringCase(Reply, SummaryMarker)
    /\ ~ContainsIgnoringCase(Reply, ExperienceMarker)
    /\ \E k \in 1..Len(ReplyLineSeq) : ReplyLineSeq[k] = LineAcme
    /\ \E k \in 1..Len(ReplyLineSeq) : ReplyLineSeq[k] = LineLedTeam
    /\ Tailored = EmptyTailored

\* the lines of a block: from a header line up to the next header line
IsHeaderLine(l) == l # <<>> /\ ~IsSpace(l[1]) /\ l[1] \notin {8226, 45, 42}
IsBulletLine(l) == MarkerFirst(l) /\ AfterMarker(l) # <<>>
HeaderLines(L) == {i \in 3..Len(L) : IsHeaderLine(L[i])} \cup {2}
BlockEnd(L, h) ==
    IF \E g \in HeaderLines(L) : g > h
    THEN Least({g \in HeaderLines(L) : g > h}) - 1
    ELSE Len(L)
BlockBulletLines(L, h) == {j \in (h + 1)..BlockEnd(L, h) : IsBulletLine(L[j])}
\* the text of the first (at most four) bullet lines of a block, in order
FirstFourOfBlock(L, h) ==
    LET B == BlockBulletLines(L, h)
        n == IF Cardinality(B) < 4 THEN Cardinality(B) ELSE 4
    IN  [k \in 1..n |-> WithoutStarsAndQuotes(AfterMarker(L[Nth(B, k)]))]
KeptHeaders(L) == {h \in HeaderLines(L) : BlockBulletLines(L, h) # {}}

\* C5: every entry of workExperience has at most 4 bullet points, and they
\* are the first 4 non-empty bullet lines of that company's block, in the
\* order of the text (the reply is "EXPERIENCE:", a company line, and lines).
C5_BulletCap ==
    pc = "parsed" =>
        /\ \A i \in 1..Len(Entries) : Len(Entries[i].bulletPoints) <= 4
        /\ Len(Entries) = Cardinality(KeptHeaders(ReplyLineSeq))
        /\ \A i \in 1..Len(Entries) :
              LET h == Nth(KeptHeaders(ReplyLineSeq), i)
              IN  /\ Entries[i].company = Strip(ReplyLineSeq[h])
                  /\ Entries[i].bulletPoints = FirstFourOfBlock(ReplyLineSeq, h)

\* a single block of six bullet lines was parsed into exactly four points
C5_Witness ==
    /\ pc = "parsed"
    /\ HeaderLines(ReplyLineSeq) = {2}
    /\ Cardinality(BlockBulletLines(ReplyLineSeq, 2)) = 6
    /\ Len(Entries) = 1
    /\ Len(Entries[1].bulletPoints) = 4

\* the line of the reply that opens the experience span, and the first
\* non-blank line after it (the first company line)
ExperienceLine ==
    Least({k \in 1..Len(ReplyLineSeq) : ReplyLineSeq[k] = LineExperience})
FirstCompanyLine ==
    Least({k \in 1..Len(ReplyLineSeq) :
              k > ExperienceLine /\ Strip(ReplyLineSeq[k]) # <<>>})
InsideBlock(k) ==
    /\ \E x \in 1..Len(ReplyLineSeq) : ReplyLineSeq[x] = LineExperience
    /\ \E y \in 1..Len(ReplyLineSeq) :
          y > ExperienceLine /\ y < k /\ Strip(ReplyLineSeq[y]) # <<>>

\* C6: a bullet point always comes from a line whose first non-whitespace
\* character is a marker; "Great - company", indented or not, never yields a
\* bullet point; "- Great company" inside a company block yields the bullet
\* point "Great company" (unless the block already holds its 4 points).
C6_MarkerFirst ==
    pc = "parsed" =>
        /\ \A bp \in AllBulletPoints :
              \E k \in 1..Len(ReplyLineSeq) :
                  /\ MarkerFirst(ReplyLineSeq[k])
                  /\ bp = WithoutStarsAndQuotes(AfterMarker(ReplyLineSeq[k]))
        /\ AllBulletPoints \cap {LineGreatDash, TextDashCompany, TextCompany} = {}
        /\ \A k \in 1..Len(ReplyLineSeq) :
              (ReplyLineSeq[k] = LineDashGreat /\ InsideBlock(k))
                  => \E i \in 1..Len(Entries) :
                        \/ \E j \in 1..Len(Entries[i].bulletPoints) :
                              Entries[i].bulletPoints[j] = TextGreatCompany
                        \/ Len(Entries[i].bulletPoints) = 4

\* a block held "- Great company" and the indented "  Great - company": only
\* the first became a bullet point
C6_Witness ==
    /\ pc = "parsed"
    /\ \E k \in 1..Len(ReplyLineSeq) :
          ReplyLineSeq[k] = LineIndentedGreatDash /\ InsideBlock(k)
    /\ Entries = << [company |-> LineAcme, bulletPoints |-> <<TextGreatCompany>>] >>

\* C7: neither the summary nor any bullet point of the result holds a '*' or
\* a '"'.
C7_NoNoise ==
    pc = "parsed" =>
        /\ \A i \in 1..Len(Tailored.summary) : Tailored.summary[i] \notin {42, 34}
        /\ \A bp \in AllBulletPoints : \A i \in 1..Len(bp) : bp[i] \notin {42, 34}

\* a reply with '*' and '"' in its summary and in a bullet line was parsed
C7_Witness ==
    /\ pc = "parsed"
    /\ Tailored.summary # <<>>
    /\ \E k \in 1..Len(ReplyLineSeq) : ReplyLineSeq[k] = LineSummary
    /\ TextLedTeam \in AllBulletPoints

\* C10: every entry of workExperience has a non-empty company name that does
\* not begin with a bullet marker, and between 1 and 4 bullet points, each a
\* non-empty text in the returned result.
C10_EntryShape ==
    pc = "parsed" =>
        \A i \in 1..Len(Entries) :
            /\ Entries[i].company # <<>>
            /\ Entries[i].company[1] \notin {8226, 45, 42}
            /\ Len(Entries[i].bulletPoints) >= 1
            /\ Len(Entries[i].bulletPoints) <= 4
            /\ \A j \in 1..Len(Entries[i].bulletPoints) :
                  Entries[i].bulletPoints[j] # <<>>

(***************************************************************************)
(* Inputs of the formatter: resume documents, well-formed and not.         *)
(***************************************************************************)
MaxEntries == 2

\* "A", "did X", "Go", "needs Y"
TextA == <<65>>
TextDidX == <<100, 105, 100, 32, 88>>
TextGo == <<71, 111>>
TextNeedsY == <<110, 101, 101, 100, 115, 32, 89>>
\* "x\nSKILLS:", a value with a line break
TextTwoLines == <<120, NL>> \o SkillsLabel

Absent == [t |-> "absent"]

\* a dictionary holding the fields that are not Absent
DictOf(fields) ==
    Dict([k \in {f \in DOMAIN fields : fields[f] # Absent} |-> fields[k]])

\* the lists of at most n entries drawn from a set
ListsOf(entries, n) == {List(l) : l \in UNION {[1..k -> entries] : k \in 0..n}}

ProfileChoices ==
    {Absent, Dict(<<>>), Dict([name |-> Str(TextA)]),
     Dict([name |-> Str(TextTwoLines), email |-> Null]), Null}

WorkEntries ==
    {Dict([company |-> Str(LineAcme), descriptions |-> List(<<Str(TextDidX)>>)]),
     Dict([jobTitle |-> Str(TextA), descriptions |-> Str(TextGo)]),
     Null}
WorkChoices ==
    {Absent, Null, Num(5), Str(TextA), Dict([company |-> Null])}
        \cup ListsOf(WorkEntries, MaxEntries)

EducationChoices ==
    {Absent} \cup ListsOf({Dict([school |-> Str(TextA), descriptions |-> Num(5)])},
                          MaxEntries)

SkillsChoices ==
    {Absent, Dict(<<>>), Null, Str(KeyChars("featuredSkills")),
     Dict([featuredSkills |-> List(<<Dict([skill |-> Str(TextGo)]),
                                     Dict([skill |-> Str(<<>>)]), Dict(<<>>)>>),
           descriptions |-> List(<<Str(TextA)>>)]),
     Dict([featuredSkills |-> List(<<Null>>)])}

ProjectsChoices ==
    {Absent} \cup ListsOf({Dict([project |-> Str(TextA)])}, MaxEntries)

Resumes ==
    {DictOf([profile |-> p, workExperiences |-> w, educations |-> e,
             skills |-> s, projects |-> j]) :
        p \in ProfileChoices, w \in WorkChoices, e \in EducationChoices,
        s \in SkillsChoices, j \in ProjectsChoices}
    \cup {Null, Num(5), Str(KeyChars("profile")), List(<<Str(KeyChars("skills"))>>)}

(***************************************************************************)
(* The formatter on its own: a resume is drawn, then formatted.            *)
(***************************************************************************)
InitFormat ==
    /\ IdleHandler
    /\ pc = "resume"
    /\ resume_data \in Resumes
    /\ formatted = Pending
    /\ ai_content = Null
    /\ result = Pending

Format ==
    /\ pc = "resume"
    /\ formatted' = format_resume_for_ai(resume_data)
    /\ pc' = "formatted"
    /\ UNCHANGED <<openai_api_key, request, bodyRead, modelCalls, response, escaped,
                   resume_data, ai_content, result>>

SpecFormat == InitFormat /\ [][Format]_vars

(***************************************************************************)
(* Properties of format_resume_for_ai.                                     *)
(***************************************************************************)
\* the positions of the output where a line equal to label starts
LabelLineStarts(label) ==
    LET text == formatted.text
        n == Len(label)
    IN  {p \in 0..(Len(text) - n) :
            /\ p = 0 \/ text[p] = 10
            /\ p + n = Len(text) \/ text[p + n + 1] = 10
            /\ \A k \in 1..n : text[p + k] = label[k]}
LabelCount(label) == Cardinality(LabelLineStarts(label))
FieldPresent(key) == resume_data.t = "dict" /\ key \in DOMAIN resume_data.d
NonEmptyList(key) ==
    /\ FieldPresent(key)
    /\ resume_data.d[key].t = "list"
    /\ resume_data.d[key].l # <<>>
SectionLabels == <<ProfileLabel, WorkLabel, EducationLabel, SkillsLabel, ProjectsLabel>>
SectionKeys == <<"profile", "workExperiences", "educations", "skills", "projects">>
LabelsInOrder ==
    LET starts == [a \in 1..5 |-> LabelLineStarts(SectionLabels[a])]
    IN  \A a \in 1..5 : \A b \in 1..5 :
            a < b => \A p \in starts[a] : \A q \in starts[b] : p < q

RECURSIVE HasLineBreak(_)
HasLineBreak(x) ==
    CASE x.t = "str" -> \E i \in 1..Len(x.s) : x.s[i] = 10
      [] x.t = "list" -> \E i \in 1..Len(x.l) : HasLineBreak(x.l[i])
      [] x.t = "dict" -> \E k \in DOMAIN x.d : HasLineBreak(x.d[k])
      [] OTHER -> FALSE

\* C8: format_resume_for_ai never raises, whatever the shape of its input: a
\* value of the wrong type is treated as empty.
C8_NeverRaises == pc = "formatted" => formatted.exc = ""

\* C9 as stated: the output holds the label line of each section whose field
\* is present exactly once, in the fixed order, and no label of an absent one.
C9_LabelsOfPresentFields ==
    (pc = "formatted" /\ formatted.exc = "") =>
        /\ \A a \in 1..5 :
              LabelCount(SectionLabels[a]) =
                  IF FieldPresent(SectionKeys[a]) THEN 1 ELSE 0
        /\ LabelsInOrder

\* C9 as stated, for the resumes whose texts hold no line break: still violated,
\* by a field that is present and holds an empty list.
C9_LabelsOfPresentFieldsSingleLine ==
    ~HasLineBreak(resume_data) => C9_LabelsOfPresentFields

\* C9 amended: when the formatter returns and no text of the resume holds a
\* line break, 'PROFILE:' and 'SKILLS:' appear exactly once when their field
\* is present, 'WORK EXPERIENCE:', 'EDUCATION:' and 'PROJECTS:' exactly once
\* when their field is a non-empty list, no label appears otherwise, and the
\* labels are in the fixed order.
C9_LabelsOfEmittedSections ==
    (pc = "formatted" /\ formatted.exc = "" /\ ~HasLineBreak(resume_data)) =>
        /\ \A a \in {1, 4} :
              LabelCount(SectionLabels[a]) =
                  IF FieldPresent(SectionKeys[a]) THEN 1 ELSE 0
        /\ \A a \in {2, 3, 5} :
              LabelCount(SectionLabels[a]) =
                  IF NonEmptyList(SectionKeys[a]) THEN 1 ELSE 0
        /\ LabelsInOrder

\* a resume with all five fields, one of them an empty list, was formatted
C9_Witness ==
    /\ pc = "formatted"
    /\ formatted.exc = ""
    /\ ~HasLineBreak(resume_data)
    /\ \A a \in 1..5 : FieldPresent(SectionKeys[a])
    /\ NonEmptyList("workExperiences")
    /\ NonEmptyList("projects")
    /\ resume_data.d["educations"] = List(<<>>)
    /\ LabelCount(WorkLabel) = 1
    /\ LabelCount(EducationLabel) = 0

(***************************************************************************)
(* The HTTP handlers.                                                      *)
(***************************************************************************)
\* os.getenv('OPENAI_API_KEY') when the variable is not set
NoneKey == "<None>"
\* "sk-test"
Credentials == {NoneKey, "", "sk-test"}

\* line 41: not openai_api_key
KeyUnsetOnlyNone(key) == key = NoneKey
KeyUnset(key) == key = NoneKey \/ key = ""

\* the reply of the end-to-end scenario:
\* "SUMMARY:\nExperienced professional skilled in Y.\n\nEXPERIENCE:\nAcme\n
\*  • Delivered Y-aligned results\n• Improved X by 20%"
ScenarioReply ==
    <<83, 85, 77, 77, 65, 82, 89, 58, 10, 69, 120, 112, 101, 114, 105, 101, 110, 99,
      101, 100, 32, 112, 114, 111, 102, 101, 115, 115, 105, 111, 110, 97, 108, 32,
      115, 107, 105, 108, 108, 101, 100, 32, 105, 110, 32, 89, 46, 10, 10, 69, 88, 80,
      69, 82, 73, 69, 78, 67, 69, 58, 10, 65, 99, 109, 101, 10, 8226, 32, 68, 101,
      108, 105, 118, 101, 114, 101, 100, 32, 89, 45, 97, 108, 105, 103, 110, 101, 100,
      32, 114, 101, 115, 117, 108, 116, 115, 10, 8226, 32, 73, 109, 112, 114, 111,
      118, 101, 100, 32, 88, 32, 98, 121, 32, 50, 48, 37>>
\* "Experienced professional skilled in Y.", "Delivered Y-aligned results",
\* "Improved X by 20%"
ScenarioSummary ==
    <<69, 120, 112, 101, 114, 105, 101, 110, 99, 101, 100, 32, 112, 114, 111, 102,
      101, 115, 115, 105, 111, 110, 97, 108, 32, 115, 107, 105, 108, 108, 101, 100,
      32, 105, 110, 32, 89, 46>>
ScenarioBullets ==
    << <<68, 101, 108, 105, 118, 101, 114, 101, 100, 32, 89, 45, 97, 108, 105, 103,
         110, 101, 100, 32, 114, 101, 115, 117, 108, 116, 115>>,
       <<73, 109, 112, 114, 111, 118, 101, 100, 32, 88, 32, 98, 121, 32, 50, 48, 37>> >>
ScenarioResume ==
    Dict([profile |-> Dict([name |-> Str(TextA)]),
          workExperiences |->
              List(<<Dict([company |-> Str(LineAcme),
                           descriptions |-> List(<<Str(TextDidX)>>)])>>)])

\* the 'resume' values of the requests
RequestResumes == {ScenarioResume, Dict(<<>>), Dict([profile |-> Null]), Null, Str(TextA)}

\* the JSON documents posted: objects with and without the two keys, and
\* documents that are no object
JsonBodies ==
    {Null, Dict(<<>>), Num(0), Num(5), List(<<>>),
     List(<<Str(KeyChars("resume")), Str(KeyChars("jobDescription"))>>),
     Str(KeyChars("resume") \o <<SPACE>> \o KeyChars("jobDescription")),
     Dict([jobDescription |-> Str(TextNeedsY)])}
    \cup {Dict([resume |-> r]) : r \in RequestResumes}
    \cup {Dict([resume |-> r, jobDescription |-> Str(TextNeedsY)]) : r \in RequestResumes}

\* a POST body: JSON that does not parse (an empty body included), a body
\* that is not declared as JSON, or a JSON document
PostRequests ==
    {[kind |-> "malformed"], [kind |-> "not_json"]}
        \cup {[kind |-> "json", value |-> v] : v \in JsonBodies}
IsPost(req) == req.kind \in {"malformed", "not_json", "json"}

\* line 47, request.json: the value, or the exception Flask raises.  A body
\* that does not parse raises BadRequest; a body not declared as JSON yields
\* None or raises, depending on the Flask version
RequestJson(req) ==
    CASE req.kind = "malformed" -> {[exc |-> "BadRequest"]}
      [] req.kind = "not_json" ->
            {[exc |-> "", value |-> Null], [exc |-> "BadRequest"],
             [exc |-> "UnsupportedMediaType"]}
      [] req.kind = "json" -> {[exc |-> "", value |-> req.value]}

\* lines 60-130: what the call of the model and the reading of its reply
\* yield: the content of the first choice, or an exception
OpenAIErrors == {"AuthenticationError", "RateLimitError", "APIConnectionError"}
ModelOutcomes ==
    {[exc |-> "", content |-> c] :
        c \in {Str(ScenarioReply), Str(<<>>), Str(Join(<<LineExperience, LineAcme,
                                                         LineStarOnly>>, 1)), Null}}
    \cup {[exc |-> e] : e \in OpenAIErrors \cup {"IndexError", "AttributeError"}}

\* the classes caught by `except openai.error.OpenAIError' and by
\* `except Exception'
IsOpenAIError(e) == e \in OpenAIErrors
IsExceptionOnlyOpenAI(e) == e \in OpenAIErrors
IsException(e) ==
    e \in OpenAIErrors \cup {"TypeError", "AttributeError", "KeyError", "IndexError",
                            "BadRequest", "UnsupportedMediaType"}

Json(status, body) == [status |-> status, body |-> body]

\* lines 139-153: where an exception raised in the handler ends; inner says
\* whether it was raised inside the inner try block
Caught(e, inner) ==
    IF inner /\ IsOpenAIError(e)
    THEN Json(500, [error |-> "OpenAI API error: " \o e, success |-> FALSE,
                    tailoredContent |-> Null])
    ELSE IF IsException(e)
    THEN Json(500, [error |-> e, success |-> FALSE, tailoredContent |-> Null])
    ELSE NoResponse

Finish(e, inner) ==
    /\ response' = Caught(e, inner)
    /\ escaped' = IF Caught(e, inner) = NoResponse THEN e ELSE ""
    /\ pc' = "done"

\* lines 49-53: the outcome of validating data and reading data['resume']
Validate(data) ==
    IF ~Truthy(data) THEN [exc |-> "", status |-> 400]
    ELSE IF In("resume", data) = "TypeError" THEN [exc |-> "TypeError"]
    ELSE IF In("resume", data) = "no" THEN [exc |-> "", status |-> 400]
    ELSE IF In("jobDescription", data) = "no" THEN [exc |-> "", status |-> 400]
    ELSE IF ItemExc(data, "resume") # "" THEN [exc |-> ItemExc(data, "resume")]
    ELSE [exc |-> "", status |-> 0, resume |-> data.d["resume"]]

InitHandler ==
    /\ openai_api_key \in Credentials
    /\ pc = "idle"
    /\ request = NoRequest
    /\ bodyRead = FALSE
    /\ modelCalls = 0
    /\ response = NoResponse
    /\ escaped = ""
    /\ resume_data = Null
    /\ formatted = Pending
    /\ ai_content = Null
    /\ result = Pending

\* a request arrives; the locals of the handler are fresh
Arrive(req) ==
    /\ pc \in {"idle", "done"}
    /\ request' = req
    /\ bodyRead' = FALSE
    /\ modelCalls' = 0
    /\ escaped' = ""
    /\ resume_data' = Null
    /\ formatted' = Pending
    /\ ai_content' = Null
    /\ result' = Pending
    /\ UNCHANGED openai_api_key

\* lines 23-30: GET /
home ==
    /\ Arrive([kind |-> "home"])
    /\ pc' = "done"
    /\ response' = Json(200, [status |-> "online",
                              message |-> "Resume analysis API is running",
                              api_key_configured |-> ~KeyUnset(openai_api_key)])

\* lines 32-35: HEAD and OPTIONS /api/analyze
check_status ==
    /\ Arrive([kind |-> "probe"])
    /\ pc' = "done"
    /\ response' = [status |-> 200, body |-> ""]

\* line 37: POST /api/analyze enters analyze_resume
Receive ==
    \E req \in PostRequests :
        /\ Arrive(req)
        /\ response' = NoResponse
        /\ pc' = "check_key"

\* lines 41-45
CheckKey ==
    /\ pc = "check_key"
    /\ IF KeyUnset(openai_api_key)
       THEN /\ response' =
                  Json(500, [error |-> "OpenAI API key not found. Please check your .env file.",
                             details |-> "Add OPENAI_API_KEY=your_key_here to your .env file"])
            /\ pc' = "done"
       ELSE /\ pc' = "read_body"
            /\ UNCHANGED response
    /\ UNCHANGED <<openai_api_key, request, bodyRead, modelCalls, escaped, resume_data,
                   formatted, ai_content, result>>

\* lines 47-53
ReadBody ==
    /\ pc = "read_body"
    /\ bodyRead' = TRUE
    /\ \E got \in RequestJson(request) :
          IF got.exc # ""
          THEN Finish(got.exc, FALSE) /\ UNCHANGED resume_data
          ELSE LET v == Validate(got.value)
               IN  IF v.exc # "" THEN Finish(v.exc, FALSE) /\ UNCHANGED resume_data
                   ELSE IF v.status = 400
                   THEN /\ response' =
                              Json(400, [error |-> "Missing resume or job description data"])
                        /\ pc' = "done"
                        /\ UNCHANGED <<escaped, resume_data>>
                   ELSE /\ resume_data' = v.resume
                        /\ pc' = "format"
                        /\ UNCHANGED <<response, escaped>>
    /\ UNCHANGED <<openai_api_key, request, modelCalls, formatted, ai_content, result>>

\* line 56
FormatResume ==
    /\ pc = "format"
    /\ formatted' = format_resume_for_ai(resume_data)
    /\ IF formatted'.exc # ""
       THEN Finish(formatted'.exc, FALSE)
       ELSE pc' = "call" /\ UNCHANGED <<response, escaped>>
    /\ UNCHANGED <<openai_api_key, request, bodyRead, modelCalls, resume_data,
                   ai_content, result>>

\* lines 60-130
CallModel ==
    /\ pc = "call"
    /\ modelCalls' = modelCalls + 1
    /\ \E got \in ModelOutcomes :
          IF got.exc # ""
          THEN Finish(got.exc, TRUE) /\ UNCHANGED ai_content
          ELSE /\ ai_content' = got.content
               /\ pc' = "parse"
               /\ UNCHANGED <<response, escaped>>
    /\ UNCHANGED <<openai_api_key, request, bodyRead, resume_data, formatted, result>>

\* lines 133-138
ParseReply ==
    /\ pc = "parse"
    /\ result' = ParseOutcome(ai_content)
    /\ IF result'.exc # ""
       THEN Finish(result'.exc, TRUE)
       ELSE /\ response' = Json(200, [success |-> TRUE,
                                      tailoredContent |-> result'.value])
            /\ pc' = "done"
            /\ UNCHANGED escaped
    /\ UNCHANGED <<openai_api_key, request, bodyRead, modelCalls, resume_data,
                   formatted, ai_content>>

Next ==
    \/ home
    \/ check_status
    \/ Receive
    \/ CheckKey
    \/ ReadBody
    \/ FormatResume
    \/ CallModel
    \/ ParseReply

Spec == InitHandler /\ [][Next]_vars

(***************************************************************************)
(* Properties of POST /api/analyze.                                        *)
(***************************************************************************)
\* the credential is None or the empty string
CredentialUnset == openai_api_key = NoneKey \/ openai_api_key = ""

\* C1: while the credential is unset, every POST /api/analyze, whatever its
\* body, is answered 500 with 'error' and 'details'; the body is not read
\* and the model is not called before that answer.
C1_CredentialFirst ==
    (IsPost(request) /\ CredentialUnset) =>
        /\ modelCalls = 0
        /\ ~bodyRead
        /\ pc \in {"check_key", "done"}
        /\ pc = "done" =>
              /\ response.status = 500
              /\ {"error", "details"} \subseteq DOMAIN response.body
              /\ escaped = ""

\* a well-formed request was answered 500 because the credential is the
\* empty string
C1_Witness ==
    /\ pc = "done"
    /\ openai_api_key = ""
    /\ request = [kind |-> "json",
                  value |-> Dict([resume |-> ScenarioResume,
                                  jobDescription |-> Str(TextNeedsY)])]
    /\ response.status = 500
    /\ "details" \in DOMAIN response.body

\* the body does not parse (or is empty), is null or an empty object, or is
\* an object without 'resume' or without 'jobDescription'
BodyInvalid(req) ==
    \/ req.kind = "malformed"
    \/ /\ req.kind = "json"
       /\ \/ req.value.t = "null"
          \/ /\ req.value.t = "dict"
             /\ {"resume", "jobDescription"} \ DOMAIN req.value.d # {}

\* C2: while the credential is set, a POST /api/analyze whose body is
\* malformed, empty or lacks 'resume' or 'jobDescription' is answered 400
\* with an 'error' field, and the model is not called.
C2_InvalidBodyIs400 ==
    (pc = "done" /\ ~CredentialUnset /\ BodyInvalid(request)) =>
        /\ response.status = 400
        /\ "error" \in DOMAIN response.body
        /\ modelCalls = 0

\* the request passed the credential check and the validation of its body
Validated == IsPost(request) /\ formatted # Pending

\* C3: once a POST /api/analyze has passed the credential check and the
\* validation, no exception leaves the handler, the model is called at most
\* once, a failure of the formatter, the call or the parser is answered 500
\* with 'success' false and 'tailoredContent' null, and 'tailoredContent' is
\* non-null only in a 200 answer with 'success' true.
C3_FailuresAnswered ==
    /\ modelCalls <= 1
    /\ Validated => escaped = ""
    /\ (Validated /\ pc = "done") =>
          IF result.exc = ""
          THEN /\ response.status = 200
               /\ response.body.success = TRUE
               /\ response.body.tailoredContent = result.value
          ELSE /\ response.status = 500
               /\ response.body.success = FALSE
               /\ response.body.tailoredContent = Null
    /\ (IsPost(request) /\ response.status # 0
          /\ "tailoredContent" \in DOMAIN response.body
          /\ response.body.tailoredContent # Null)
        => (response.status = 200 /\ response.body.success = TRUE)

\* the single call of the model failed and the request was answered 500 with
\* a null 'tailoredContent'
C3_Witness ==
    /\ pc = "done"
    /\ Validated
    /\ modelCalls = 1
    /\ result = Pending
    /\ response.status = 500
    /\ response.body.success = FALSE
    /\ response.body.tailoredContent = Null

\* the end-to-end scenario: the sample reply is answered with its summary and
\* the two bullet points of Acme
ScenarioAnswered ==
    (pc = "done" /\ Validated /\ ai_content = Str(ScenarioReply)) =>
        response.body.tailoredContent =
            [summary |-> ScenarioSummary,
             workExperience |-> << [company |-> LineAcme,
                                    bulletPoints |-> ScenarioBullets] >>]

====
